---- MODULE Spec2Model ----
(***************************************************************************)
(* The autonat v2 client's dial-back connection handler                    *)
(* (protocols/autonatv2/src/client/handler/dial_back.rs): a Handler that   *)
(* owns one bounded pool of perform_dial_back futures, admits one future   *)
(* per negotiated inbound stream and reports each pool completion upward.  *)
(*                                                                         *)
(* The pool (futures_bounded::FuturesSet), the message codec               *)
(* (DialBack::read_from) and the two constants of client/handler.rs are    *)
(* not among the sources at hand; they are modelled from the written       *)
(* description of the pool and of the exchange.                            *)
(***************************************************************************)
EXTENDS Integers, Sequences, FiniteSets, TLC

\* ------------------------------------------------------------------ bounds

\* Pool capacity K and per-operation deadline, in clock ticks.  Their values
\* are set in client/handler.rs; the model runs them at small values.
MAX_CONCURRENT_REQUESTS == 2
DEFAULT_TIMEOUT == 1

\* Inbound streams negotiated over the life of the connection.
MaxStreams == 3
\* The clock stops advancing here.
MaxTime == 2
\* Nonces a peer may send: 0..MaxNonce.
MaxNonce == 1

StreamIds == 1..MaxStreams
Nonces == 0..MaxNonce

\* ------------------------------------------------------------------ values

\* io::Result<Nonce>, the ToBehaviour type (line 19).  One record shape for
\* both variants; NoResult stands where no result exists.
OkNonce(n) == [tag |-> "Ok", nonce |-> n, kind |-> "-", inner |-> "-"]
ErrIo(kind, inner) == [tag |-> "Err", nonce |-> 0, kind |-> kind, inner |-> inner]
NoResult == [tag |-> "-", nonce |-> 0, kind |-> "-", inner |-> "-"]

\* Errors a stream's read side can produce, and the one its close can.
ReadErrors == {ErrIo("UnexpectedEof", "stream"), ErrIo("TimedOut", "stream")}
CloseError == ErrIo("BrokenPipe", "stream")

\* Result<io::Result<Nonce>, Timeout>: what the pool yields per operation.
PoolOk(r) == [tag |-> "Ok", val |-> r, timeout |-> 0]
PoolTimeout(d) == [tag |-> "Err", val |-> NoResult, timeout |-> d]

\* How the write side of a stream can answer a close.
CloseOutcomes == {"ok", "blocked", "broken"}

\* Poll<...>
Pending == [tag |-> "Pending", val |-> NoResult]
Ready(r) == [tag |-> "Ready", val |-> r]

\* ----------------------------------------------------------------- streams

\* A negotiated substream as the exchange sees it.
\*   st      "unopened" | "open" | "dropped" (its owner released it)
\*   admitted  the pool took the future that owns it
\*   rx      what read_from finds: NoResult (nothing complete yet),
\*           OkNonce(n) (a whole message) or a read error
\*   wr      how close behaves when called: "ok" | "blocked" | "broken"
\*   readDone / closeCalled / closed   what the exchange has done to it
NewStream == [st |-> "unopened", admitted |-> FALSE, rx |-> NoResult, wr |-> "ok",
              readDone |-> FALSE, closeCalled |-> FALSE, closed |-> FALSE]

\* io::Result<()> of a close that succeeded.
OkUnit == [tag |-> "Ok", nonce |-> 0, kind |-> "-", inner |-> "-"]

\* DialBack::read_from(&mut stream): suspends until a whole message is there
\* or the stream fails.
read_from(s) == IF s.rx = NoResult THEN Pending ELSE Ready(s.rx)

\* stream.close(): flush and close the write side.
close(s) ==
    CASE s.wr = "blocked" -> Pending
      [] s.wr = "broken"  -> Ready(CloseError)
      [] OTHER            -> Ready(OkUnit)

\* ------------------------------------------------- the exchange routine

\* The future perform_dial_back(stream) before its first poll.
\*   pc     the await it is suspended at: "read" | "close"
\*   nonce  the nonce read, once pc = "close"
NewDialBack == [pc |-> "read", nonce |-> 0]

\* The second await and the return: stream.close().await?; Ok(nonce)
close_and_return(f, s) ==
    LET s1 == [s EXCEPT !.closeCalled = TRUE]
        c  == close(s)
    IN  CASE c = Pending       -> [fut |-> f, stream |-> s1, out |-> Pending]
          [] c.val.tag = "Err" -> [fut |-> f, stream |-> s1, out |-> Ready(c.val)]
          [] OTHER             -> [fut |-> f, stream |-> [s1 EXCEPT !.closed = TRUE],
                                   out |-> Ready(OkNonce(f.nonce))]

\* perform_dial_back without the close: Ok(nonce) right after the read.
perform_dial_back_no_close(f, s) ==
    LET r == read_from(s)
    IN  CASE r = Pending       -> [fut |-> f, stream |-> s, out |-> Pending]
          [] r.val.tag = "Err" -> [fut |-> f, stream |-> s, out |-> Ready(r.val)]
          [] OTHER             -> [fut |-> [pc |-> "close", nonce |-> r.val.nonce],
                                   stream |-> [s EXCEPT !.readDone = TRUE],
                                   out |-> Ready(OkNonce(r.val.nonce))]

\* perform_dial_back that ignores the outcome of the close:
\* let _ = stream.close().await; Ok(nonce)
perform_dial_back_ignore_close_error(f, s) ==
    LET r  == IF f.pc = "read" THEN read_from(s) ELSE Ready(OkNonce(f.nonce))
        f1 == [pc |-> "close", nonce |-> r.val.nonce]
        s1 == [s EXCEPT !.readDone = TRUE, !.closeCalled = TRUE]
        c  == close(s)
    IN  CASE r = Pending       -> [fut |-> f, stream |-> s, out |-> Pending]
          [] r.val.tag = "Err" -> [fut |-> f, stream |-> s, out |-> Ready(r.val)]
          [] c = Pending       -> [fut |-> f1, stream |-> s1, out |-> Pending]
          [] OTHER             -> [fut |-> f1,
                                   stream |-> [s1 EXCEPT !.closed = (c.val.tag = "Ok")],
                                   out |-> Ready(OkNonce(f1.nonce))]

\* One poll of the future of perform_dial_back: it runs from the await it is
\* suspended at until it suspends again or returns.
perform_dial_back(f, s) ==
    IF f.pc = "read"
    THEN LET r == read_from(s)
         IN  CASE r = Pending       -> [fut |-> f, stream |-> s, out |-> Pending]
               [] r.val.tag = "Err" -> [fut |-> f, stream |-> s, out |-> Ready(r.val)]
               [] OTHER             ->
                    close_and_return([pc |-> "close", nonce |-> r.val.nonce],
                                     [s EXCEPT !.readDone = TRUE])
    ELSE close_and_return(f, s)

\* --------------------------------------------------------------- the pool

\* FuturesSet::new(timeout, capacity).
\*   futures  the admitted futures by id, each with its deadline
\*   queue    the ids woken and not yet polled, in wake order
FuturesSet_new(timeout, capacity) ==
    [timeout |-> timeout, capacity |-> capacity, futures |-> <<>>, queue |-> <<>>]

Len_(pool) == Cardinality(DOMAIN pool.futures)

InQueue(pool, i) == \E k \in 1..Len(pool.queue) : pool.queue[k] = i

\* FuturesSet::try_push at time t: refuses at once when `capacity` futures
\* are in; an admitted future gets the deadline t + timeout and is scheduled.
try_push(pool, i, f, t) ==
    IF Len_(pool) >= pool.capacity
    THEN [ok |-> FALSE, pool |-> pool]
    ELSE [ok |-> TRUE,
          pool |-> [pool EXCEPT
                      !.futures = (i :> [pc |-> f.pc, nonce |-> f.nonce,
                                         deadline |-> t + pool.timeout]) @@ @,
                      !.queue = Append(@, i)]]

\* A waker fires for future i: it is scheduled unless it already is.
wake(pool, i) ==
    IF i \in DOMAIN pool.futures /\ ~InQueue(pool, i)
    THEN [pool EXCEPT !.queue = Append(@, i)]
    ELSE pool

Without(fs, i) == [j \in DOMAIN fs \ {i} |-> fs[j]]

NoPoolResult == [tag |-> "-", val |-> NoResult, timeout |-> 0]

\* FuturesSet::poll_unpin at time t: the scheduled futures are polled in
\* wake order; the first one past its deadline (Timeout) or returning is
\* removed and yielded; one that suspends again waits for its next wake.
RECURSIVE poll_unpin(_, _, _)
poll_unpin(pool, ss, t) ==
    IF pool.queue = <<>>
    THEN [pool |-> pool, streams |-> ss, tag |-> "Pending", id |-> 0, res |-> NoPoolResult]
    ELSE LET i    == Head(pool.queue)
             rest == Tail(pool.queue)
             f    == pool.futures[i]
         IN  IF t >= f.deadline
             THEN [pool |-> [pool EXCEPT !.futures = Without(@, i), !.queue = rest],
                   streams |-> [ss EXCEPT ![i].st = "dropped"],
                   tag |-> "Ready", id |-> i, res |-> PoolTimeout(pool.timeout)]
             ELSE LET p == perform_dial_back([pc |-> f.pc, nonce |-> f.nonce], ss[i])
                  IN  IF p.out # Pending
                      THEN [pool |-> [pool EXCEPT !.futures = Without(@, i), !.queue = rest],
                            streams |-> [ss EXCEPT ![i] = [p.stream EXCEPT !.st = "dropped"]],
                            tag |-> "Ready", id |-> i, res |-> PoolOk(p.out.val)]
                      ELSE poll_unpin(
                             [pool EXCEPT !.futures[i].pc = p.fut.pc,
                                          !.futures[i].nonce = p.fut.nonce,
                                          !.queue = rest],
                             [ss EXCEPT ![i] = p.stream], t)

\* ------------------------------------------------------------ the handler

\* Handler::new() with the capacity off by one.
Handler_new_capacity ==
    [inbound |-> FuturesSet_new(DEFAULT_TIMEOUT, MAX_CONCURRENT_REQUESTS + 1)]

\* Handler::new()
Handler_new == [inbound |-> FuturesSet_new(DEFAULT_TIMEOUT, MAX_CONCURRENT_REQUESTS)]

\* ConnectionHandlerEvent::NotifyBehaviour(r), and what a call returns when
\* it returns nothing the model looks at.
NotifyBehaviour(r) == [tag |-> "NotifyBehaviour", val |-> r]
Unit == [tag |-> "()", val |-> NoResult]
Bool(b) == [tag |-> IF b THEN "true" ELSE "false", val |-> NoResult]

\* io::Error::new(kind, payload)
io_Error_new(kind, payload) == [kind |-> kind, inner |-> payload]
NoError == [kind |-> "-", inner |-> "-"]

\* map_err with another error kind for the pool's Timeout.
map_err_other(r) ==
    IF r.tag = "Err"
    THEN [tag |-> "Err", val |-> NoResult, err |-> io_Error_new("Other", "Timeout")]
    ELSE [tag |-> "Ok", val |-> r.val, err |-> NoError]

\* .map_err(|timeout| io::Error::new(io::ErrorKind::TimedOut, timeout)):
\* Result<io::Result<Nonce>, Timeout> to Result<io::Result<Nonce>, io::Error>.
map_err(r) ==
    IF r.tag = "Err"
    THEN [tag |-> "Err", val |-> NoResult, err |-> io_Error_new("TimedOut", "Timeout")]
    ELSE [tag |-> "Ok", val |-> r.val, err |-> NoError]

\* .and_then(identity): Ok(inner) is flattened to inner, Err(e) stays Err(e).
and_then_identity(r) ==
    IF r.tag = "Ok" THEN r.val ELSE ErrIo(r.err.kind, r.err.inner)

\* The conversion with map_err applied after the flattening: the routine's
\* own error is wrapped into a TimedOut error too.
to_behaviour_wrap(res) ==
    LET flat == IF res.tag = "Ok" THEN res.val ELSE ErrIo("TimedOut", "Timeout")
    IN  IF flat.tag = "Err" THEN ErrIo("TimedOut", flat.kind) ELSE flat

\* The Result<Nonce, io::Error> that poll hands upward for a pool result.
to_behaviour(res) == and_then_identity(map_err(res))

\* Handler::poll that reports the pool's result and keeps the pool as it
\* was before the pool's poll.
poll_keeps_pool(h, ss, t) ==
    LET p == poll_unpin(h.inbound, ss, t)
    IN  IF p.tag = "Ready"
        THEN [handler |-> h, streams |-> ss,
              ret |-> NotifyBehaviour(to_behaviour(p.res)), id |-> p.id, raw |-> p.res]
        ELSE [handler |-> [h EXCEPT !.inbound = p.pool], streams |-> p.streams,
              ret |-> Pending, id |-> 0, raw |-> NoPoolResult]

\* Handler::poll that matches only Poll::Ready(Ok(result)): a Timeout the
\* pool yields is taken out of the pool and not reported.
poll_drops_timeout(h, ss, t) ==
    LET p == poll_unpin(h.inbound, ss, t)
    IN  IF p.tag = "Ready" /\ p.res.tag = "Ok"
        THEN [handler |-> [h EXCEPT !.inbound = p.pool], streams |-> p.streams,
              ret |-> NotifyBehaviour(to_behaviour(p.res)), id |-> p.id, raw |-> p.res]
        ELSE [handler |-> [h EXCEPT !.inbound = p.pool], streams |-> p.streams,
              ret |-> Pending, id |-> 0, raw |-> NoPoolResult]

\* Handler::poll that polls the pool until it is Pending and reports the
\* first result only.
RECURSIVE drain(_, _, _)
drain(pool, ss, t) ==
    LET p == poll_unpin(pool, ss, t)
    IN  IF p.tag = "Ready" THEN drain(p.pool, p.streams, t) ELSE p

poll_drain(h, ss, t) ==
    LET p == poll_unpin(h.inbound, ss, t)
    IN  IF p.tag = "Ready"
        THEN LET d == drain(p.pool, p.streams, t)
             IN  [handler |-> [h EXCEPT !.inbound = d.pool], streams |-> d.streams,
                  ret |-> NotifyBehaviour(to_behaviour(p.res)), id |-> p.id, raw |-> p.res]
        ELSE [handler |-> [h EXCEPT !.inbound = p.pool], streams |-> p.streams,
              ret |-> Pending, id |-> 0, raw |-> NoPoolResult]

\* Handler::poll that answers a failed or timed-out operation by closing
\* the connection instead of notifying the behaviour.
poll_close_on_error(h, ss, t) ==
    LET p == poll_unpin(h.inbound, ss, t)
        v == to_behaviour(p.res)
    IN  IF p.tag = "Ready"
        THEN [handler |-> [h EXCEPT !.inbound = p.pool], streams |-> p.streams,
              ret |-> IF v.tag = "Err" THEN [tag |-> "Close", val |-> v]
                      ELSE NotifyBehaviour(v),
              id |-> p.id, raw |-> p.res]
        ELSE [handler |-> [h EXCEPT !.inbound = p.pool], streams |-> p.streams,
              ret |-> Pending, id |-> 0, raw |-> NoPoolResult]

\* Handler::poll that starts over with a fresh pool after a Timeout.
poll_timeout_clears(h, ss, t) ==
    LET p == poll_unpin(h.inbound, ss, t)
    IN  IF p.tag = "Ready"
        THEN [handler |-> [h EXCEPT !.inbound =
                             IF p.res.tag = "Err"
                             THEN FuturesSet_new(p.pool.timeout, p.pool.capacity)
                             ELSE p.pool],
              streams |-> p.streams,
              ret |-> NotifyBehaviour(to_behaviour(p.res)), id |-> p.id, raw |-> p.res]
        ELSE [handler |-> [h EXCEPT !.inbound = p.pool], streams |-> p.streams,
              ret |-> Pending, id |-> 0, raw |-> NoPoolResult]

\* Handler::poll over a pool that yields in admission order: only the oldest
\* pending future is polled, the others wait for it.
poll_ordered(h, ss, t) ==
    LET pool  == h.inbound
        o     == IF DOMAIN pool.futures = {} THEN 0
                 ELSE CHOOSE j \in DOMAIN pool.futures :
                          \A k \in DOMAIN pool.futures : j <= k
        first == SelectSeq(pool.queue, LAMBDA x : x = o)
        rest  == SelectSeq(pool.queue, LAMBDA x : x # o)
        p     == poll_unpin([pool EXCEPT !.queue = first], ss, t)
        after == [p.pool EXCEPT !.queue = @ \o rest]
    IN  IF p.tag = "Ready"
        THEN [handler |-> [h EXCEPT !.inbound = after], streams |-> p.streams,
              ret |-> NotifyBehaviour(to_behaviour(p.res)), id |-> p.id, raw |-> p.res]
        ELSE [handler |-> [h EXCEPT !.inbound = after], streams |-> p.streams,
              ret |-> Pending, id |-> 0, raw |-> NoPoolResult]

\* Handler::poll that takes a Pending pool for a timeout and reports it.
poll_spurious(h, ss, t) ==
    LET p == poll_unpin(h.inbound, ss, t)
    IN  IF p.tag = "Ready"
        THEN [handler |-> [h EXCEPT !.inbound = p.pool], streams |-> p.streams,
              ret |-> NotifyBehaviour(to_behaviour(p.res)), id |-> p.id, raw |-> p.res]
        ELSE [handler |-> [h EXCEPT !.inbound = p.pool], streams |-> p.streams,
              ret |-> NotifyBehaviour(to_behaviour(PoolTimeout(p.pool.timeout))),
              id |-> 0, raw |-> PoolTimeout(p.pool.timeout)]

\* Handler::poll at time t.
poll(h, ss, t) ==
    LET p == poll_unpin(h.inbound, ss, t)
    IN  IF p.tag = "Ready"
        THEN [handler |-> [h EXCEPT !.inbound = p.pool], streams |-> p.streams,
              ret |-> NotifyBehaviour(to_behaviour(p.res)), id |-> p.id, raw |-> p.res]
        ELSE [handler |-> [h EXCEPT !.inbound = p.pool], streams |-> p.streams,
              ret |-> Pending, id |-> 0, raw |-> NoPoolResult]

\* Handler::on_behaviour_event
on_behaviour_event(h) == h

ConnectionEvents ==
    {"FullyNegotiatedInbound", "ListenUpgradeError", "AddressChange",
     "DialUpgradeError", "LocalProtocolsChange", "RemoteProtocolsChange"}

Oldest(pool) == CHOOSE j \in DOMAIN pool.futures : \A k \in DOMAIN pool.futures : j <= k

\* Handler::on_connection_event that makes room for a stream refused by
\* try_push: the oldest pending future is replaced by the new one.
on_connection_event_evict(h, type, protocol, t) ==
    CASE type = "FullyNegotiatedInbound" ->
            LET r == try_push(h.inbound, protocol, NewDialBack, t)
            IN  IF r.ok THEN [h EXCEPT !.inbound = r.pool]
                ELSE LET o == Oldest(h.inbound)
                         less == [h.inbound EXCEPT
                                    !.futures = Without(@, o),
                                    !.queue = SelectSeq(@, LAMBDA x : x # o)]
                     IN  [h EXCEPT !.inbound = try_push(less, protocol, NewDialBack, t).pool]
      [] OTHER -> h

\* Handler::on_connection_event that starts over with a fresh pool when a
\* negotiation fails.
on_connection_event_reset(h, type, protocol, t) ==
    CASE type = "FullyNegotiatedInbound" ->
            [h EXCEPT !.inbound = try_push(@, protocol, NewDialBack, t).pool]
      [] type = "ListenUpgradeError" ->
            [h EXCEPT !.inbound = FuturesSet_new(@.timeout, @.capacity)]
      [] OTHER -> h

\* Handler::on_connection_event whose default arm starts over with a fresh
\* pool.
on_connection_event_other_clears(h, type, protocol, t) ==
    CASE type = "FullyNegotiatedInbound" ->
            [h EXCEPT !.inbound = try_push(@, protocol, NewDialBack, t).pool]
      [] type = "ListenUpgradeError" -> h
      [] OTHER -> [h EXCEPT !.inbound = FuturesSet_new(@.timeout, @.capacity)]

\* Handler::on_connection_event at time t; `protocol` is the negotiated
\* stream of a FullyNegotiatedInbound.
on_connection_event(h, type, protocol, t) ==
    CASE type = "FullyNegotiatedInbound" ->
            [h EXCEPT !.inbound = try_push(@, protocol, NewDialBack, t).pool]
      [] type = "ListenUpgradeError" -> h
      [] OTHER -> h

\* connection_keep_alive that holds the connection while operations are
\* pending.
connection_keep_alive_pending(h) == Len_(h.inbound) > 0

\* Handler::connection_keep_alive
connection_keep_alive(h) == FALSE

\* ------------------------------------------------- sdp.rs: text helpers

\* A text (&str, String) is the sequence of its characters.
CRLF == <<"\r", "\n">>
LF == <<"\n">>
SPACE == <<" ">>
COLON == <<":">>

\* str::find(pat): the index of the first occurrence of pat in s, 0 if none.
find(s, pat) ==
    LET at == {j \in 1..(Len(s) - Len(pat) + 1) : SubSeq(s, j, j + Len(pat) - 1) = pat}
    IN  IF at = {} THEN 0 ELSE CHOOSE j \in at : \A k \in at : j <= k

\* str::split(pat): the pieces of s between the occurrences of pat.
RECURSIVE split(_, _)
split(s, pat) ==
    LET j == find(s, pat)
    IN  IF j = 0 THEN <<s>>
        ELSE <<SubSeq(s, 1, j - 1)>> \o split(SubSeq(s, j + Len(pat), Len(s)), pat)

\* [String]::join(sep)
RECURSIVE join(_, _)
join(pieces, sep) ==
    IF pieces = <<>> THEN <<>>
    ELSE IF Len(pieces) = 1 THEN pieces[1]
    ELSE pieces[1] \o sep \o join(Tail(pieces), sep)

\* str::replace(from, to)
replace(s, from, to) == join(split(s, from), to)

\* str::starts_with(prefix)
starts_with(s, prefix) ==
    Len(s) >= Len(prefix) /\ SubSeq(s, 1, Len(prefix)) = prefix

UpperHex == <<"0", "1", "2", "3", "4", "5", "6", "7", "8", "9", "A", "B", "C", "D", "E", "F">>
LowerHex == <<"0", "1", "2", "3", "4", "5", "6", "7", "8", "9", "a", "b", "c", "d", "e", "f">>

IsHexDigit(c) == \E v \in 1..16 : UpperHex[v] = c \/ LowerHex[v] = c
HexVal(c) == (CHOOSE v \in 1..16 : UpperHex[v] = c \/ LowerHex[v] = c) - 1

\* hex::decode: an odd length or a character that is no hex digit is an
\* error; upper and lower case digits are both accepted.
hex_decode(s) ==
    IF Len(s) % 2 = 1 \/ \E k \in 1..Len(s) : ~IsHexDigit(s[k])
    THEN [tag |-> "Err", bytes |-> <<>>]
    ELSE [tag |-> "Ok",
          bytes |-> [k \in 1..(Len(s) \div 2) |->
                       16 * HexVal(s[2 * k - 1]) + HexVal(s[2 * k])]]

\* ------------------------------------------------------- sdp.rs: fingerprint

\* [u8; 32]
FingerprintLen == 32

\* What a call of fingerprint ends with: Ok(Fingerprint), Err(regex::Error)
\* or the panic of an unwrap.
FpOk(arr) == [tag |-> "Ok", fp |-> arr, msg |-> ""]
FpErr(msg) == [tag |-> "Err", fp |-> <<>>, msg |-> msg]
FpPanic(msg) == [tag |-> "Panic", fp |-> <<>>, msg |-> msg]
NotCalled == [tag |-> "-", fp |-> <<>>, msg |-> ""]

\* Fingerprint::raw
Fingerprint_raw(arr) == arr

\* Fingerprint::algorithm
algorithm(fp) == <<"s", "h", "a", "-", "2", "5", "6">>

\* Fingerprint::to_sdp_format: the bytes as two upper-case hex digits each,
\* joined by ':'.
to_sdp_format(fp) ==
    join([k \in 1..Len(fp) |->
            <<UpperHex[(fp[k] \div 16) + 1], UpperHex[(fp[k] % 16) + 1]>>], COLON)

A_FINGERPRINT == <<"a", "=", "f", "i", "n", "g", "e", "r", "p", "r", "i", "n", "t", ":">>

\* fingerprint(sdp)
fingerprint(sdp) ==
    LET lines == split(sdp, CRLF)
        hits  == {k \in 1..Len(lines) : starts_with(lines[k], A_FINGERPRINT)}
    IN  IF hits = {} THEN FpErr("fingerprint not found")
        ELSE LET line  == lines[CHOOSE k \in hits : \A m \in hits : k <= m]
                 parts == split(line, SPACE)
             IN  IF Len(parts) < 2 THEN FpPanic("unwrap: nth(1) is None")
                 ELSE LET d == hex_decode(replace(parts[2], COLON, <<>>))
                      IN  IF d.tag = "Err" THEN FpPanic("unwrap: hex::decode")
                          ELSE IF Len(d.bytes) # FingerprintLen
                          THEN FpPanic("unwrap: try_into [u8; 32]")
                          ELSE FpOk(Fingerprint_raw(d.bytes))

\* ------------------------------------------------------ sdp.rs: SDP texts

\* The fingerprint of sdp_tests::test_fingerprint.
TEST_FINGERPRINT ==
    <<"A", "8", ":", "1", "7", ":", "7", "7", ":", "1", "E", ":", "0", "2", ":", "7", "E", ":",
      "D", "1", ":", "2", "B", ":", "5", "3", ":", "9", "2", ":", "7", "0", ":", "A", "6", ":",
      "8", "E", ":", "F", "9", ":", "0", "2", ":", "C", "C", ":", "2", "1", ":", "7", "2", ":",
      "3", "A", ":", "9", "2", ":", "5", "D", ":", "F", "4", ":", "9", "7", ":", "5", "F", ":",
      "2", "7", ":", "C", "4", ":", "5", "E", ":", "7", "5", ":", "D", "4", ":", "F", "4", ":",
      "3", "1", ":", "8", "9">>

\* The SDP of sdp_tests::test_fingerprint.
TEST_SDP ==
    <<"v", "=", "0", "\n", "o", "=", "-", " ", "0", " ", "0", " ", "I", "N", " ", "I", "P",
      "6", " ", ":", ":", "1", "\n", "s", "=", "-", "\n", "c", "=", "I", "N", " ", "I", "P",
      "6", " ", ":", ":", "1", "\n", "t", "=", "0", " ", "0", "\n", "a", "=", "i", "c", "e",
      "-", "l", "i", "t", "e", "\n", "m", "=", "a", "p", "p", "l", "i", "c", "a", "t", "i",
      "o", "n", " ", "6", "1", "8", "8", "5", " ", "U", "D", "P", "/", "D", "T", "L", "S", "/",
      "S", "C", "T", "P", " ", "w", "e", "b", "r", "t", "c", "-", "d", "a", "t", "a", "c", "h",
      "a", "n", "n", "e", "l", "\n", "a", "=", "m", "i", "d", ":", "0", "\n", "a", "=", "s",
      "e", "t", "u", "p", ":", "p", "a", "s", "s", "i", "v", "e", "\n", "a", "=", "i", "c",
      "e", "-", "u", "f", "r", "a", "g", ":", "l", "i", "b", "p", "2", "p", "+", "w", "e", "b",
      "r", "t", "c", "+", "v", "1", "/", "Y", "w", "a", "p", "W", "y", "S", "n", "6", "f", "E",
      "6", "L", "9", "i", "4", "7", "P", "h", "l", "B", "6", "X", "4", "g", "z", "N", "X", "c",
      "g", "F", "s", "\n", "a", "=", "i", "c", "e", "-", "p", "w", "d", ":", "l", "i", "b",
      "p", "2", "p", "+", "w", "e", "b", "r", "t", "c", "+", "v", "1", "/", "Y", "w", "a", "p",
      "W", "y", "S", "n", "6", "f", "E", "6", "L", "9", "i", "4", "7", "P", "h", "l", "B", "6",
      "X", "4", "g", "z", "N", "X", "c", "g", "F", "s", "\n", "a", "=", "f", "i", "n", "g",
      "e", "r", "p", "r", "i", "n", "t", ":", "s", "h", "a", "-", "2", "5", "6", " ", "A", "8",
      ":", "1", "7", ":", "7", "7", ":", "1", "E", ":", "0", "2", ":", "7", "E", ":", "D", "1",
      ":", "2", "B", ":", "5", "3", ":", "9", "2", ":", "7", "0", ":", "A", "6", ":", "8", "E",
      ":", "F", "9", ":", "0", "2", ":", "C", "C", ":", "2", "1", ":", "7", "2", ":", "3", "A",
      ":", "9", "2", ":", "5", "D", ":", "F", "4", ":", "9", "7", ":", "5", "F", ":", "2", "7",
      ":", "C", "4", ":", "5", "E", ":", "7", "5", ":", "D", "4", ":", "F", "4", ":", "3", "1",
      ":", "8", "9", "\n", "a", "=", "s", "c", "t", "p", "-", "p", "o", "r", "t", ":", "5",
      "0", "0", "0", "\n", "a", "=", "m", "a", "x", "-", "m", "e", "s", "s", "a", "g", "e",
      "-", "s", "i", "z", "e", ":", "1", "6", "3", "8", "4", "\n", "a", "=", "c", "a", "n",
      "d", "i", "d", "a", "t", "e", ":", "1", "4", "6", "7", "2", "5", "0", "0", "2", "7", " ",
      "1", " ", "U", "D", "P", " ", "1", "4", "6", "7", "2", "5", "0", "0", "2", "7", " ", ":",
      ":", "1", " ", "6", "1", "8", "8", "5", " ", "t", "y", "p", " ", "h", "o", "s", "t",
      "\n">>

SHA_256 == <<"s", "h", "a", "-", "2", "5", "6">>
SHA_1 == <<"s", "h", "a", "-", "1">>

\* Lines an SDP has besides its fingerprint.
OtherLines ==
    { <<"v", "=", "0">>,
      <<"a", "=", "m", "i", "d", ":", "0">>,
      <<"a", "=", "i", "c", "e", "-", "u", "f", "r", "a", "g", ":", "u">> }

to_lowercase(s) ==
    [k \in 1..Len(s) |->
        IF \E v \in 11..16 : UpperHex[v] = s[k]
        THEN LowerHex[CHOOSE v \in 11..16 : UpperHex[v] = s[k]]
        ELSE s[k]]

\* Fingerprint lines: the test's, in lower case, one byte short, with a
\* character that is no hex digit, without a value, and with another
\* algorithm name.
FingerprintLines ==
    { A_FINGERPRINT \o SHA_256 \o SPACE \o TEST_FINGERPRINT,
      A_FINGERPRINT \o SHA_256 \o SPACE \o to_lowercase(TEST_FINGERPRINT),
      A_FINGERPRINT \o SHA_256 \o SPACE \o SubSeq(TEST_FINGERPRINT, 4, Len(TEST_FINGERPRINT)),
      A_FINGERPRINT \o SHA_256 \o SPACE \o <<"G">> \o Tail(TEST_FINGERPRINT),
      A_FINGERPRINT \o SHA_256,
      A_FINGERPRINT \o SHA_1 \o SPACE \o TEST_FINGERPRINT }

MaxBefore == 2
MaxAfter == 1

SeqsUpTo(S, n) == UNION {[1..k -> S] : k \in 0..n}

\* The SDP texts fingerprint is called with: the test's, and lines before
\* and after at most one fingerprint line, separated by "\n" or by "\r\n",
\* with or without a separator at the end.
SdpInputs ==
    {TEST_SDP} \cup
    { join(before \o mid \o after, sep) \o end :
        before \in SeqsUpTo(OtherLines, MaxBefore),
        mid \in {<<>>} \cup {<<f>> : f \in FingerprintLines},
        after \in SeqsUpTo(OtherLines, MaxAfter),
        sep \in {LF, CRLF},
        end \in {<<>>, LF, CRLF} }

\* ------------------------------------------------------------ sdp.rs: offer

A_ICE_UFRAG == <<"a", "=", "i", "c", "e", "-", "u", "f", "r", "a", "g", ":">>
A_ICE_PWD == <<"a", "=", "i", "c", "e", "-", "p", "w", "d", ":">>

\* RtcSessionDescriptionInit::new(RtcSdpType::Offer) with its sdp set, and
\* the value before the call.
OfferObj(text) == [type |-> "offer", sdp |-> text]
NoOffer == [type |-> "-", sdp |-> <<>>]

\* The loop of offer over the lines: what is pushed to munged_offer_sdp.
RECURSIVE munge(_, _)
munge(lines, client_ufrag) ==
    IF lines = <<>> THEN <<>>
    ELSE LET line == Head(lines)
             out  == IF starts_with(line, A_ICE_UFRAG)
                         THEN A_ICE_UFRAG \o client_ufrag \o CRLF
                     ELSE IF starts_with(line, A_ICE_PWD)
                         THEN A_ICE_PWD \o client_ufrag \o CRLF
                     ELSE IF line # <<>> THEN line \o CRLF
                     ELSE <<>>
         IN  out \o munge(Tail(lines), client_ufrag)

\* The loop of offer that leaves the a=ice-pwd: lines as they are.
RECURSIVE munge_keeps_pwd(_, _)
munge_keeps_pwd(lines, client_ufrag) ==
    IF lines = <<>> THEN <<>>
    ELSE LET line == Head(lines)
             out  == IF starts_with(line, A_ICE_UFRAG)
                         THEN A_ICE_UFRAG \o client_ufrag \o CRLF
                     ELSE IF line # <<>> THEN line \o CRLF
                     ELSE <<>>
         IN  out \o munge_keeps_pwd(Tail(lines), client_ufrag)

offer_keeps_pwd(offer_sdp, client_ufrag) ==
    OfferObj(replace(munge_keeps_pwd(split(offer_sdp, CRLF), client_ufrag),
                     CRLF \o CRLF, CRLF))

\* offer(offer, client_ufrag), for an offer whose "sdp" is the text offer_sdp
offer(offer_sdp, client_ufrag) ==
    OfferObj(replace(munge(split(offer_sdp, CRLF), client_ufrag), CRLF \o CRLF, CRLF))

\* Lines of an offer: attribute lines, the two ICE lines, the empty line, a
\* line with a "\n" in it and one that ends in "\r".
OfferLines ==
    OtherLines \cup
    { A_ICE_UFRAG \o <<"x">>,
      A_ICE_PWD \o <<"y", "z">>,
      <<>>,
      <<"s", "=", "\n", "-">>,
      <<"t", "=", "0", "\r">> }

MaxOfferLines == 3

\* The offers: up to MaxOfferLines lines separated by "\r\n", with or
\* without one at the end.
OfferInputs ==
    { join(lines, CRLF) \o end :
        lines \in SeqsUpTo(OfferLines, MaxOfferLines), end \in {<<>>, CRLF} }

\* The values of client_ufrag: empty, one of ICE characters, and two with
\* line breaks in them.
Ufrags ==
    { <<>>,
      <<"u", "+", "/", "1">>,
      <<"u", "\r", "\n">>,
      <<"u", "\r", "\n", "\r", "\n", "v">> }

\* ----------------------------------------------------------------- state

VARIABLES
    now,         \* the clock, in ticks
    handler,     \* the Handler
    stream,      \* the negotiated streams, by id
    events,      \* the upward events so far: [id, raw, value]
    last,        \* the latest call on the handler and what it returned
    atCapacity,  \* the streams that arrived while the pool held K operations
    sdp,         \* the SDP text the functions of sdp.rs are called with
    ret,         \* what the call of fingerprint ended with
    client_ufrag, \* the client_ufrag offer is called with
    offer_obj    \* what the call of offer returned

vars == <<now, handler, stream, events, last, atCapacity, sdp, ret, client_ufrag, offer_obj>>

Init ==
    /\ now = 0
    /\ handler = Handler_new
    /\ stream = [i \in StreamIds |-> NewStream]
    /\ events = <<>>
    /\ last = [call |-> "new", ret |-> Unit]
    /\ atCapacity = {}
    /\ sdp = <<>>
    /\ ret = NotCalled
    /\ client_ufrag = <<>>
    /\ offer_obj = NoOffer

Pool == handler.inbound
Pending_ == DOMAIN Pool.futures
Opened == {i \in StreamIds : stream[i].st # "unopened"}
Scheduled == {Pool.queue[k] : k \in 1..Len(Pool.queue)}
Admitted == {i \in StreamIds : stream[i].admitted}
Reported == {events[k].id : k \in 1..Len(events)}

\* ---------------------------------------------------- calls on the handler

\* The connection hands the handler a negotiated inbound stream.
FullyNegotiatedInbound ==
    /\ Opened # StreamIds
    /\ LET i == CHOOSE j \in StreamIds \ Opened : \A k \in StreamIds \ Opened : j <= k
           h == on_connection_event(handler, "FullyNegotiatedInbound", i, now)
       IN  /\ handler' = h
           /\ stream' = [stream EXCEPT
                           ![i].st = IF i \in DOMAIN h.inbound.futures
                                     THEN "open" ELSE "dropped",
                           ![i].admitted = i \in DOMAIN h.inbound.futures]
           /\ atCapacity' = IF Cardinality(Pending_) >= MAX_CONCURRENT_REQUESTS
                            THEN atCapacity \cup {i} ELSE atCapacity
    /\ UNCHANGED <<now, events, last, sdp, ret, client_ufrag, offer_obj>>

\* An inbound negotiation failed.
ListenUpgradeError ==
    /\ handler' = on_connection_event(handler, "ListenUpgradeError", 0, now)
    /\ last' = [call |-> "ListenUpgradeError", ret |-> Unit]
    /\ UNCHANGED <<now, stream, events, atCapacity, sdp, ret, client_ufrag, offer_obj>>

\* Any other connection event.
OtherConnectionEvent ==
    /\ \E type \in ConnectionEvents \ {"FullyNegotiatedInbound", "ListenUpgradeError"} :
           handler' = on_connection_event(handler, type, 0, now)
    /\ last' = [call |-> "OtherConnectionEvent", ret |-> Unit]
    /\ UNCHANGED <<now, stream, events, atCapacity, sdp, ret, client_ufrag, offer_obj>>

OnBehaviourEvent ==
    /\ handler' = on_behaviour_event(handler)
    /\ last' = [call |-> "on_behaviour_event", ret |-> Unit]
    /\ UNCHANGED <<now, stream, events, atCapacity, sdp, ret, client_ufrag, offer_obj>>

ConnectionKeepAlive ==
    /\ last' = [call |-> "connection_keep_alive", ret |-> Bool(connection_keep_alive(handler))]
    /\ UNCHANGED <<now, handler, stream, events, atCapacity, sdp, ret, client_ufrag, offer_obj>>

\* The reactor polls the handler.  How each stream's write side answers a
\* close during this poll is the transport's choice w.
Poll ==
    \E w \in [Scheduled -> CloseOutcomes] :
    LET p == poll(handler, [i \in StreamIds |->
                              [stream[i] EXCEPT !.wr = IF i \in Scheduled THEN w[i] ELSE "ok"]],
                  now)
    IN  /\ handler' = p.handler
        /\ stream' = [i \in StreamIds |-> [p.streams[i] EXCEPT !.wr = "ok"]]
        /\ events' = IF p.ret.tag = "NotifyBehaviour"
                     THEN Append(events, [id |-> p.id, raw |-> p.raw,
                                          value |-> p.ret.val])
                     ELSE events
        /\ last' = [call |-> "poll", ret |-> p.ret]
        /\ UNCHANGED <<now, atCapacity, sdp, ret, client_ufrag, offer_obj>>

\* ------------------------------------------------- the peer and the clock

Live(i) == stream[i].st = "open"

\* The rest of a dial-back message arrives on stream i.
PeerSend(i, n) ==
    /\ Live(i) /\ stream[i].rx = NoResult
    /\ stream' = [stream EXCEPT ![i].rx = OkNonce(n)]
    /\ handler' = [handler EXCEPT !.inbound = wake(@, i)]
    /\ UNCHANGED <<now, events, last, atCapacity, sdp, ret, client_ufrag, offer_obj>>

\* Part of a message arrives and the peer stalls: the future waiting in
\* read_from is woken and finds no whole message.
PeerPartial(i) ==
    /\ Live(i) /\ stream[i].rx = NoResult /\ ~InQueue(Pool, i)
    /\ handler' = [handler EXCEPT !.inbound = wake(@, i)]
    /\ UNCHANGED <<now, stream, events, last, atCapacity, sdp, ret, client_ufrag, offer_obj>>

\* The stream closes or fails before a whole message is there.
PeerFail(i, e) ==
    /\ Live(i) /\ stream[i].rx = NoResult
    /\ stream' = [stream EXCEPT ![i].rx = e]
    /\ handler' = [handler EXCEPT !.inbound = wake(@, i)]
    /\ UNCHANGED <<now, events, last, atCapacity, sdp, ret, client_ufrag, offer_obj>>

\* The write side of a stream whose close is pending makes progress: the
\* future waiting in close is woken.
WriteReady(i) ==
    /\ Live(i) /\ Pool.futures[i].pc = "close" /\ ~InQueue(Pool, i)
    /\ handler' = [handler EXCEPT !.inbound = wake(@, i)]
    /\ UNCHANGED <<now, stream, events, last, atCapacity, sdp, ret, client_ufrag, offer_obj>>

RECURSIVE wake_all(_, _)
wake_all(pool, ids) ==
    IF ids = {} THEN pool
    ELSE LET i == CHOOSE j \in ids : \A k \in ids : j <= k
         IN  wake_all(wake(pool, i), ids \ {i})

\* The clock advances; the timers that expire wake their futures.
Tick ==
    /\ now < MaxTime
    /\ now' = now + 1
    /\ handler' = [handler EXCEPT !.inbound =
                     wake_all(@, {i \in Pending_ : Pool.futures[i].deadline <= now + 1})]
    /\ UNCHANGED <<stream, events, last, atCapacity, sdp, ret, client_ufrag, offer_obj>>

Next ==
    \/ FullyNegotiatedInbound
    \/ ListenUpgradeError
    \/ OtherConnectionEvent
    \/ OnBehaviourEvent
    \/ ConnectionKeepAlive
    \/ Poll
    \/ \E i \in StreamIds, n \in Nonces : PeerSend(i, n)
    \/ \E i \in StreamIds : PeerPartial(i)
    \/ \E i \in StreamIds, e \in ReadErrors : PeerFail(i, e)
    \/ \E i \in StreamIds : WriteReady(i)
    \/ Tick

Spec == Init /\ [][Next]_vars

\* The same handler under a reactor that polls it until it returns Pending
\* before the clock moves on: no woken future waits across a tick.
TickPolled == Pool.queue = <<>> /\ Tick

NextPolled ==
    \/ FullyNegotiatedInbound
    \/ ListenUpgradeError
    \/ OtherConnectionEvent
    \/ OnBehaviourEvent
    \/ ConnectionKeepAlive
    \/ Poll
    \/ \E i \in StreamIds, n \in Nonces : PeerSend(i, n)
    \/ \E i \in StreamIds : PeerPartial(i)
    \/ \E i \in StreamIds, e \in ReadErrors : PeerFail(i, e)
    \/ \E i \in StreamIds : WriteReady(i)
    \/ TickPolled

SpecPolled == Init /\ [][NextPolled]_vars

\* The handler on a connection whose reactor keeps polling it while the
\* clock runs.  Streams are negotiated only while their deadline lies within
\* the time the model covers; the calls that leave the handler as it is are
\* left out.
AdmitInTime == now + DEFAULT_TIMEOUT <= MaxTime /\ FullyNegotiatedInbound

NextLive ==
    \/ AdmitInTime
    \/ Poll
    \/ \E i \in StreamIds, n \in Nonces : PeerSend(i, n)
    \/ \E i \in StreamIds : PeerPartial(i)
    \/ \E i \in StreamIds, e \in ReadErrors : PeerFail(i, e)
    \/ \E i \in StreamIds : WriteReady(i)
    \/ Tick

\* sdp.rs: fingerprint is called once with an SDP text.
InitSdp ==
    /\ now = 0
    /\ handler = Handler_new
    /\ stream = [i \in StreamIds |-> NewStream]
    /\ events = <<>>
    /\ last = [call |-> "new", ret |-> Unit]
    /\ atCapacity = {}
    /\ sdp \in SdpInputs
    /\ ret = NotCalled
    /\ client_ufrag = <<>>
    /\ offer_obj = NoOffer

CallFingerprint ==
    /\ ret = NotCalled
    /\ ret' = fingerprint(sdp)
    /\ UNCHANGED <<now, handler, stream, events, last, atCapacity, sdp,
                   client_ufrag, offer_obj>>

NextSdp == CallFingerprint

SpecSdp == InitSdp /\ [][NextSdp]_vars

\* sdp.rs: offer is called once with an offer and a client_ufrag.
InitOffer ==
    /\ now = 0
    /\ handler = Handler_new
    /\ stream = [i \in StreamIds |-> NewStream]
    /\ events = <<>>
    /\ last = [call |-> "new", ret |-> Unit]
    /\ atCapacity = {}
    /\ sdp \in OfferInputs
    /\ ret = NotCalled
    /\ client_ufrag \in Ufrags
    /\ offer_obj = NoOffer

CallOffer ==
    /\ offer_obj = NoOffer
    /\ offer_obj' = offer(sdp, client_ufrag)
    /\ UNCHANGED <<now, handler, stream, events, last, atCapacity, sdp, ret, client_ufrag>>

NextOffer == CallOffer

SpecOffer == InitOffer /\ [][NextOffer]_vars

\* Poll can change the state exactly when a future is woken or the latest
\* call was not a poll that returned Pending.
PollEnabled == Pool.queue # <<>> \/ last # [call |-> "poll", ret |-> Pending]

PollEnabledIsEnabled == PollEnabled <=> ENABLED <<Poll>>_vars

\* Weak fairness of Poll, WF_vars(Poll), written out with PollEnabled for
\* ENABLED <<Poll>>_vars: the reactor does not leave a handler that has
\* something to poll unpolled for ever.
FairPoll == []<>(~PollEnabled) \/ []<><<Poll>>_vars

SpecLive == Init /\ [][NextLive]_vars /\ FairPoll /\ WF_vars(Tick)

\* ----------------------------------------------------------------- claims

Min(a, b) == IF a <= b THEN a ELSE b

EventsOf(i) == {k \in 1..Len(events) : events[k].id = i}

\* C1: the pool never holds more than K = MAX_CONCURRENT_REQUESTS dial-back
\* operations; as long as no operation has completed, it holds as many as
\* were negotiated, up to K: exactly K once more than K were negotiated.
C1_CapacityInvariant ==
    /\ Cardinality(Pending_) <= MAX_CONCURRENT_REQUESTS
    /\ events = <<>> =>
          Cardinality(Pending_) = Min(Cardinality(Opened), MAX_CONCURRENT_REQUESTS)

\* More than K streams were negotiated, none completed, K are pending.
C1_Witness ==
    /\ Cardinality(Opened) > MAX_CONCURRENT_REQUESTS
    /\ events = <<>>
    /\ Cardinality(Pending_) = MAX_CONCURRENT_REQUESTS
    /\ last.call = "poll"

\* C2: every admitted operation is either still pending or was reported
\* upward exactly once, never both; no event exists for anything else, and
\* no admitted operation has left the pool unreported.
C2_ExactlyOneReport ==
    /\ \A i \in Admitted :
          \/ i \in Pending_ /\ EventsOf(i) = {}
          \/ i \notin Pending_ /\ Cardinality(EventsOf(i)) = 1
    /\ Reported \subseteq Admitted

\* One operation was reported and polls went on after it: the latest poll
\* found nothing more to report while another operation is pending.
C2_Witness ==
    /\ Len(events) >= 1
    /\ last = [call |-> "poll", ret |-> Pending]
    /\ Pending_ # {}

\* C3: a stream negotiated while the pool holds K operations is dropped:
\* it is never in the pool and no upward event ever carries it.
C3_RejectedNeverReported ==
    \A i \in atCapacity :
        /\ i \notin Pending_
        /\ i \notin Reported
        /\ stream[i].st = "dropped"
        /\ ~stream[i].admitted

\* A stream was rejected, and later a slot became free and polls went on.
C3_Witness ==
    /\ atCapacity # {}
    /\ Len(events) >= 1
    /\ Cardinality(Pending_) < MAX_CONCURRENT_REQUESTS
    /\ last = [call |-> "poll", ret |-> Pending]

TimedOutError == ErrIo("TimedOut", "Timeout")

C4_Step ==
    /\ \A i \in Pending_ \ DOMAIN handler'.inbound.futures :
          stream[i].rx = NoResult =>
             /\ now = Pool.futures[i].deadline
             /\ events' = Append(events, [id |-> i,
                                          raw |-> PoolTimeout(DEFAULT_TIMEOUT),
                                          value |-> TimedOutError])
    /\ \A j \in StreamIds :
          (/\ stream[j].st = "unopened" /\ stream'[j].st # "unopened"
           /\ Cardinality(Pending_) < MAX_CONCURRENT_REQUESTS)
          => j \in DOMAIN handler'.inbound.futures

\* C4: under a reactor that polls the handler before the clock moves on, no
\* pending operation is past its deadline, which lies at most `timeout`
\* ahead; a stalled operation (no whole message, no stream failure) leaves
\* the pool only at its deadline, in a step that reports it as the TimedOut
\* error; and a stream negotiated while fewer than K operations are pending
\* is admitted, so a slot freed by a timeout is usable again.
C4_TimeoutEnforced ==
    /\ [](\A i \in Pending_ :
            /\ now <= Pool.futures[i].deadline
            /\ Pool.futures[i].deadline <= now + DEFAULT_TIMEOUT)
    /\ [][C4_Step]_vars

\* Capacity 2: two stalled operations fill the pool, a third negotiation is
\* rejected, and after the deadline both were reported as timeouts and
\* both slots are free.
C4_Witness ==
    /\ atCapacity # {}
    /\ Len(events) = MAX_CONCURRENT_REQUESTS
    /\ \A k \in 1..Len(events) :
          /\ events[k].value = TimedOutError
          /\ stream[events[k].id].rx = NoResult
    /\ Pending_ = {}
    /\ now = DEFAULT_TIMEOUT

\* C5: a ListenUpgradeError changes nothing: the pool with its pending
\* operations, the streams and the events reported so far are as before.
C5_ListenUpgradeErrorIsolated ==
    [][(last' # last /\ last'.call = "ListenUpgradeError")
         => UNCHANGED <<handler, stream, events, atCapacity, now>>]_vars

\* A negotiation failed while operations were pending and others reported.
C5_Witness ==
    /\ last.call = "ListenUpgradeError"
    /\ Pending_ # {}
    /\ events # <<>>

\* C6: a step reports at most one event, and an operation leaves the pool
\* only in the step that reports it: what else is ready stays in the pool.
C6_OneEventPerPoll ==
    [][/\ Len(events') <= Len(events) + 1
       /\ \A i \in Pending_ \ DOMAIN handler'.inbound.futures :
            /\ Len(events') = Len(events) + 1
            /\ events'[Len(events')].id = i]_vars

\* Two operations admitted at time 0 reached their deadline together; one
\* poll reported one of them and the other is still in the pool, scheduled.
C6_Witness ==
    /\ now = DEFAULT_TIMEOUT
    /\ Len(events) = 1 /\ events[1].raw.tag = "Err"
    /\ last.call = "poll" /\ last.ret.tag = "NotifyBehaviour"
    /\ \E j \in Pending_ : Pool.futures[j].deadline <= now /\ InQueue(Pool, j)

\* C7: a Timeout of the pool goes upward as the error of kind TimedOut, and
\* never as Ok.
C7_TimeoutIsTimedOutError ==
    \A k \in 1..Len(events) :
        events[k].raw.tag = "Err" =>
            /\ events[k].value.tag = "Err"
            /\ events[k].value.kind = "TimedOut"
            /\ events[k].value = TimedOutError

\* The pool yielded a Timeout and poll reported it.
C7_Witness ==
    \E k \in 1..Len(events) :
        /\ events[k].raw = PoolTimeout(DEFAULT_TIMEOUT)
        /\ last.call = "poll"

\* When the stream failed before a whole message and the exchange routine
\* returned, it returned that failure; and whatever failure the routine
\* returned is the value reported upward.
C8_RoutineFailureUnmodified ==
    \A k \in 1..Len(events) :
        LET e == events[k]
        IN  /\ (e.raw.tag = "Ok" /\ stream[e.id].rx \in ReadErrors)
                  => e.raw.val = stream[e.id].rx
            /\ (e.raw.tag = "Ok" /\ e.raw.val.tag = "Err") => e.value = e.raw.val

\* C8 as stated: whenever the stream of an admitted operation failed before
\* a whole message, the value reported upward for it is that failure, not a
\* timeout or another error.
C8_AsStated ==
    \A k \in 1..Len(events) :
        stream[events[k].id].rx \in ReadErrors
            => events[k].value = stream[events[k].id].rx

\* The report of an operation whose stream failed is that failure or, from
\* its deadline on, the pool's Timeout as a TimedOut error.
C8_FailureOrTimeout ==
    \A k \in 1..Len(events) :
        stream[events[k].id].rx \in ReadErrors
            => \/ events[k].raw = PoolOk(stream[events[k].id].rx)
                  /\ events[k].value = stream[events[k].id].rx
               \/ events[k].raw = PoolTimeout(DEFAULT_TIMEOUT)
                  /\ events[k].value = TimedOutError

\* A poll before the deadline of an operation whose stream failed reports
\* that failure.
C8_Step ==
    (/\ last'.call = "poll"
     /\ Len(events') = Len(events) + 1
     /\ events'[Len(events')].id \in Pending_
     /\ stream[events'[Len(events')].id].rx \in ReadErrors
     /\ now < Pool.futures[events'[Len(events')].id].deadline)
        => /\ events'[Len(events')].raw = PoolOk(stream[events'[Len(events')].id].rx)
           /\ events'[Len(events')].value = stream[events'[Len(events')].id].rx

\* C8: when the stream of an admitted operation closes or errors before a
\* whole message is received and the operation is polled before its
\* deadline, the exchange routine returns that failure and poll reports it
\* upward unmodified; polled at or after its deadline the operation is
\* reported as the pool's timeout, a TimedOut error, and as nothing else.
C8_FailureUnmodified ==
    /\ [](C8_RoutineFailureUnmodified /\ C8_FailureOrTimeout)
    /\ [][C8_Step]_vars

\* A stream failure of kind TimedOut was reported, and so was a failed close.
C8_Witness ==
    /\ \E k \in 1..Len(events) :
          events[k].raw.tag = "Ok" /\ events[k].value = ErrIo("TimedOut", "stream")
    /\ \E m \in 1..Len(events) :
          events[m].raw.tag = "Ok" /\ events[m].value = CloseError

\* C9: the routine returns Ok(n) only for the nonce n of the message the
\* stream delivered and only with the write side closed; when a message
\* with n was delivered and the routine returned, it returned Ok(n) unless
\* the close failed; close is never invoked before the read has completed.
C9_RoundTrip ==
    /\ \A k \in 1..Len(events) :
          LET e == events[k]
              s == stream[e.id]
          IN  /\ (e.raw.tag = "Ok" /\ e.raw.val.tag = "Ok") =>
                    /\ s.rx = OkNonce(e.raw.val.nonce)
                    /\ s.readDone /\ s.closeCalled /\ s.closed
                    /\ e.value = OkNonce(s.rx.nonce)
              /\ (e.raw.tag = "Ok" /\ s.rx.tag = "Ok") =>
                    \/ e.raw.val = OkNonce(s.rx.nonce)
                    \/ e.raw.val = CloseError /\ ~s.closed
    /\ \A i \in StreamIds :
          /\ stream[i].closeCalled => stream[i].readDone
          /\ stream[i].closed => stream[i].closeCalled

\* The largest nonce made the round trip: read, then closed, then reported.
C9_Witness ==
    \E k \in 1..Len(events) :
        /\ events[k].value = OkNonce(MaxNonce)
        /\ stream[events[k].id].closed

\* C10: connection_keep_alive returns false whenever it is asked.
C10_NeverKeepAlive ==
    last.call = "connection_keep_alive" => last.ret = Bool(FALSE)

\* It was asked while an operation was pending.
C10_Witness ==
    /\ last.call = "connection_keep_alive"
    /\ Pending_ # {}


\* A step in which poll was called (a call that changes nothing but the
\* wake queue of the pool is one too).
IsPollStep ==
    /\ last'.call = "poll"
    /\ \/ last' # last
       \/ Len(handler'.inbound.queue) < Len(Pool.queue)

\* The event a step appends, when it appends one.
Emits == Len(events') = Len(events) + 1

NewEvent == events'[Len(events')]

\* C11: whatever the inputs (malformed, failing or stalled peers included),
\* a call of poll returns Pending or NotifyBehaviour and nothing else: no
\* request to open an outbound substream, no event closing the connection.
C11_PollOnlyNotifies ==
    last.call = "poll" => last.ret.tag \in {"Pending", "NotifyBehaviour"}

C11_Witness ==
    /\ last.call = "poll"
    /\ last.ret.tag = "NotifyBehaviour"
    /\ last.ret.val \in ReadErrors
    /\ \E k \in 1..Len(events) : events[k].raw = PoolTimeout(DEFAULT_TIMEOUT)
    /\ \E i \in Pending_ : stream[i].rx = NoResult

C13_Step ==
    \A j \in StreamIds :
        /\ (j \notin Pending_ /\ j \in Pending_')
               => handler'.inbound.futures[j].deadline = now + DEFAULT_TIMEOUT
        /\ (j \in Pending_ /\ j \in Pending_')
               => handler'.inbound.futures[j].deadline = Pool.futures[j].deadline
        /\ (j \in Pending_ /\ Emits /\ NewEvent.raw.tag = "Err" /\ NewEvent.id # j)
               => /\ j \in Pending_'
                  /\ handler'.inbound.futures[j].deadline = Pool.futures[j].deadline
                  /\ stream'[j].st = "open"
                  /\ stream'[j].rx = stream[j].rx
                  /\ Pool.futures[j].pc = "close"
                        => /\ handler'.inbound.futures[j].pc = "close"
                           /\ handler'.inbound.futures[j].nonce = Pool.futures[j].nonce

\* C13: the deadline of an operation is fixed when it is admitted, at the
\* time of admission plus the timeout, and never changes while it is
\* pending; when one operation times out every other pending operation
\* stays in the pool with its own deadline, and what it has received and
\* read so far, which decide its result, is kept.
C13_TimeoutPerOperation == [][C13_Step]_vars

C13_Witness ==
    /\ last.call = "poll"
    /\ events # <<>>
    /\ events[Len(events)].raw = PoolTimeout(DEFAULT_TIMEOUT)
    /\ \E j \in Pending_ :
          /\ Pool.futures[j].deadline > now
          /\ Pool.futures[j].pc = "close"

\* Operation i has, when polled now, certainly an outcome.
DefinitelyReady(i) ==
    /\ i \in Pending_
    /\ InQueue(Pool, i)
    /\ \/ now >= Pool.futures[i].deadline
       \/ Pool.futures[i].pc = "read" /\ stream[i].rx \in ReadErrors

\* Operation i has no outcome yet: nothing arrived, deadline ahead.
NotReady(i) ==
    /\ i \in Pending_
    /\ now < Pool.futures[i].deadline
    /\ stream[i].rx = NoResult

C14_Step ==
    IsPollStep =>
        /\ (\E b \in StreamIds : DefinitelyReady(b)) => Emits
        /\ Emits => ~NotReady(NewEvent.id)

\* C14: outcomes are reported as operations become ready, not in the order
\* of admission: a poll made while some operation is ready reports an
\* outcome even when older operations are not ready, and the operation it
\* reports is never one that is not ready.
C14_ReadinessOrder == [][C14_Step]_vars

C14_Witness ==
    /\ last.call = "poll"
    /\ Len(events) = 1
    /\ \E a \in Pending_ :
          /\ a < events[1].id
          /\ NotReady(a)

\* C16: the exchange routine returns an I/O error whenever one of its steps
\* fails: a failed read is returned as it is and no close is attempted; a
\* failed close after a successful read returns the close error, and the
\* nonce that was read is not reported; a nonce is reported only for a
\* stream that was read and closed.
C16_StepFailureReturnsError ==
    \A k \in 1..Len(events) :
        LET e == events[k]
            s == stream[e.id]
        IN  e.raw.tag = "Ok" =>
              /\ s.rx \in ReadErrors
                    => e.raw.val = s.rx /\ e.value = s.rx /\ ~s.closeCalled
              /\ (s.readDone /\ ~s.closed)
                    => /\ s.closeCalled
                       /\ e.raw.val = CloseError
                       /\ e.value = CloseError
              /\ e.value.tag = "Ok" => s.readDone /\ s.closed

C16_Witness ==
    /\ \E k \in 1..Len(events) :
          /\ events[k].value = CloseError
          /\ stream[events[k].id].rx = OkNonce(MaxNonce)
          /\ stream[events[k].id].closeCalled
    /\ \E k \in 1..Len(events) :
          /\ events[k].value \in ReadErrors
          /\ ~stream[events[k].id].closeCalled

\* The ConnectionEvent kinds that on_connection_event ignores.
IgnoredConnectionEvents ==
    ConnectionEvents \ {"FullyNegotiatedInbound", "ListenUpgradeError"}

C17_Operators ==
    /\ on_behaviour_event(handler) = handler
    /\ \A type \in IgnoredConnectionEvents, i \in StreamIds :
          on_connection_event(handler, type, i, now) = handler

C17_Step ==
    (last' # last /\ last'.call \in {"OtherConnectionEvent", "on_behaviour_event"})
        => UNCHANGED <<handler, stream, events, atCapacity, now>>

\* C17: on_behaviour_event and every ConnectionEvent other than
\* FullyNegotiatedInbound and ListenUpgradeError leave the handler as it
\* is: no operation is admitted, removed or completed and no event is
\* reported.
C17_OtherInputsIgnored == [](C17_Operators) /\ [][C17_Step]_vars

C17_Witness ==
    /\ last.call \in {"OtherConnectionEvent", "on_behaviour_event"}
    /\ Cardinality(Pending_) = MAX_CONCURRENT_REQUESTS
    /\ events # <<>>
    /\ \E i \in Pending_ : InQueue(Pool, i) /\ stream[i].rx # NoResult

\* No pending operation can have an outcome when polled now: every
\* deadline is ahead, and every operation either has received nothing or
\* has not been woken since it last returned Pending.
Quiet ==
    \A i \in Pending_ :
        /\ now < Pool.futures[i].deadline
        /\ stream[i].rx = NoResult \/ ~InQueue(Pool, i)

C18_Step ==
    (IsPollStep /\ Quiet) =>
        /\ last'.ret = Pending
        /\ events' = events
        /\ Pending_' = Pending_
        /\ stream' = stream

\* C18: when no pending operation has an outcome or has reached its
\* deadline, the empty pool included, poll returns Pending, reports nothing
\* and leaves the pending operations as they are.
C18_PollNeverBlocks == [][C18_Step]_vars

C18_Witness ==
    /\ last = [call |-> "poll", ret |-> Pending]
    /\ Quiet
    /\ Pool.queue = <<>>
    /\ Cardinality(Pending_) = MAX_CONCURRENT_REQUESTS
    /\ \E i \in Pending_ : Pool.futures[i].pc = "close"
    /\ \E i \in Pending_ : stream[i].rx = NoResult

C19_Step ==
    /\ \A i \in Pending_ \ Pending_' :
          /\ Emits
          /\ NewEvent.id = i
          /\ IsPollStep
          /\ NewEvent.raw.tag = "Ok" \/ now >= Pool.futures[i].deadline
    /\ \A j \in StreamIds :
          (/\ stream[j].st = "unopened"
           /\ stream'[j].st # "unopened"
           /\ Cardinality(Pending_) >= MAX_CONCURRENT_REQUESTS)
              => handler' = handler /\ events' = events

\* C19: an operation leaves the pool only in a poll that reports it, with
\* the result of its exchange or, at or after its deadline, with Timeout;
\* an admission refused at capacity leaves the pool and its K operations
\* as they were.
C19_OnlyCompletionOrDeadline == [][C19_Step]_vars

C19_Witness ==
    /\ atCapacity # {}
    /\ Pending_ = {}
    /\ \E k, m \in 1..Len(events) :
          /\ \A j \in atCapacity : events[k].id < j /\ events[m].id < j
          /\ events[k].value.tag = "Ok"
          /\ events[m].value = TimedOutError

C20_Counts ==
    /\ Cardinality(Admitted) = Cardinality(Pending_) + Len(events)
    /\ Len(events) <= Cardinality(Admitted)

C20_Step ==
    /\ Cardinality(Pending_') < Cardinality(Pending_) <=> Emits
    /\ Cardinality(Pending_') >= Cardinality(Pending_) - 1
    /\ Len(events') >= Len(events)

\* C20: the operations admitted so far are those pending plus those
\* reported; a slot is released exactly in the step that reports its
\* operation, so events never outnumber admissions.
C20_SlotConservation == [](C20_Counts) /\ [][C20_Step]_vars

C20_Witness ==
    /\ Cardinality(Admitted) = MaxStreams
    /\ Len(events) = MAX_CONCURRENT_REQUESTS
    /\ Cardinality(Pending_) = MaxStreams - MAX_CONCURRENT_REQUESTS
    /\ atCapacity = {}

\* Every operation admitted so far has been reported and none is pending.
C15_Settled == Pending_ = {} /\ Admitted \subseteq Reported

\* C15: under a reactor that keeps polling and a clock that keeps running,
\* every admitted operation is eventually reported, whatever its peer does
\* (sends, stalls for ever, fails): from some point on, when no further
\* stream is negotiated, the pool is empty and every admitted operation has
\* its event.
C15_EventuallyReported == <>[]C15_Settled

C15_Witness ==
    /\ Opened = StreamIds
    /\ Pending_ = {}
    /\ Admitted # {}
    /\ Admitted \subseteq Reported
    /\ \E k \in 1..Len(events) :
          /\ events[k].value = TimedOutError
          /\ stream[events[k].id].rx = NoResult
    /\ \E k \in 1..Len(events) :
          /\ events[k].value = TimedOutError
          /\ stream[events[k].id].closeCalled

\* The lines of a text, whichever of "\n" and "\r\n" separates them.
strip_cr(l) == IF l # <<>> /\ l[Len(l)] = "\r" THEN SubSeq(l, 1, Len(l) - 1) ELSE l

TextLines(text) == {strip_cr(split(text, LF)[k]) : k \in 1..Len(split(text, LF))}

\* h is the colon-separated hex of 32 bytes.
IsHexOf32Bytes(h) ==
    LET bytes == split(h, COLON)
    IN  /\ Len(bytes) = FingerprintLen
        /\ \A k \in 1..Len(bytes) :
              Len(bytes[k]) = 2 /\ IsHexDigit(bytes[k][1]) /\ IsHexDigit(bytes[k][2])

\* The hex strings h for which the text has a line 'a=fingerprint:sha-256 h'.
Sha256Fingerprints(text) ==
    LET head == A_FINGERPRINT \o SHA_256 \o SPACE
    IN  {h \in {SubSeq(l, Len(head) + 1, Len(l)) :
                  l \in {x \in TextLines(text) : starts_with(x, head)}} :
           IsHexOf32Bytes(h)}

C12_OfLine ==
    \A h \in Sha256Fingerprints(sdp) :
        /\ ret.tag = "Ok"
        /\ algorithm(ret.fp) = SHA_256
        /\ to_sdp_format(ret.fp) = h

C12_OfTest ==
    sdp = TEST_SDP =>
        /\ ret.tag = "Ok"
        /\ algorithm(ret.fp) = SHA_256
        /\ to_sdp_format(ret.fp) = TEST_FINGERPRINT

\* C12: for an SDP text with a line 'a=fingerprint:sha-256 <colon-separated
\* hex of 32 bytes>', fingerprint returns Ok with a Fingerprint whose
\* algorithm is sha-256 and whose SDP format is that hex string; so it does
\* for the SDP of test_fingerprint, whose lines end in "\n".
C12_FingerprintOfSdp == ret # NotCalled => C12_OfLine /\ C12_OfTest

\* fingerprint was called with the SDP of test_fingerprint and found no
\* fingerprint in it.
C12_Witness ==
    /\ sdp = TEST_SDP
    /\ TEST_FINGERPRINT \in Sha256Fingerprints(sdp)
    /\ ret = FpErr("fingerprint not found")

\* What fingerprint does return: Ok with the bytes of the first line that
\* starts with a=fingerprint:, when "\r\n" ends the lines before it and the
\* line itself.
FingerprintOfCrLfLine ==
    (ret # NotCalled /\ find(sdp, LF) # 0 /\ \A k \in 2..Len(sdp) : sdp[k] = "\n" => sdp[k - 1] = "\r")
        => \A h \in Sha256Fingerprints(sdp) :
              /\ ret.tag = "Ok"
              /\ algorithm(ret.fp) = SHA_256
              /\ to_sdp_format(ret.fp) = to_sdp_format(hex_decode(replace(h, COLON, <<>>)).bytes)
              /\ (h = TEST_FINGERPRINT => to_sdp_format(ret.fp) = h)

\* What the claim puts in the place of a line of the offer.
Rewritten(line, u) ==
    IF starts_with(line, A_ICE_UFRAG) THEN A_ICE_UFRAG \o u
    ELSE IF starts_with(line, A_ICE_PWD) THEN A_ICE_PWD \o u
    ELSE line

\* The non-empty lines of the text in their order, rewritten, each ended by
\* "\r\n".
ExpectedOffer(text, u) ==
    LET kept == SelectSeq(split(text, CRLF), LAMBDA l : l # <<>>)
    IN  IF kept = <<>> THEN <<>>
        ELSE join([k \in 1..Len(kept) |-> Rewritten(kept[k], u)], CRLF) \o CRLF

\* No line of the text is empty (what follows the last "\r\n" is no line).
NoEmptyLine(text) ==
    LET ls == split(text, CRLF)
    IN  \A k \in 1..(Len(ls) - 1) : ls[k] # <<>>

C21_Produced ==
    /\ offer_obj.type = "offer"
    /\ offer_obj.sdp = ExpectedOffer(sdp, client_ufrag)
    /\ NoEmptyLine(offer_obj.sdp)

\* C21 as stated: for every offer and every client_ufrag, offer produces
\* the non-empty lines of the offer in their order, each ended by "\r\n",
\* the a=ice-ufrag: and a=ice-pwd: lines carrying client_ufrag, the other
\* lines unchanged, and no empty line.
C21_AsStated == offer_obj # NoOffer => C21_Produced

\* C21: for every offer and every client_ufrag without a "\r\n" in it, offer
\* produces the non-empty lines of the offer in their order, each ended by
\* "\r\n", the a=ice-ufrag: and a=ice-pwd: lines carrying client_ufrag, the
\* other lines unchanged, and no empty line.
C21_OfferLines ==
    (offer_obj # NoOffer /\ find(client_ufrag, CRLF) = 0) => C21_Produced

C21_Witness ==
    /\ client_ufrag = <<"u", "+", "/", "1">>
    /\ sdp = A_ICE_UFRAG \o <<"x">> \o CRLF \o CRLF \o A_ICE_PWD \o <<"y", "z">> \o CRLF
    /\ offer_obj = OfferObj(A_ICE_UFRAG \o client_ufrag \o CRLF
                            \o A_ICE_PWD \o client_ufrag \o CRLF)
====
